---- MODULE Spec2Model ----
(***************************************************************************)
(* The test harness TestEvm (tests/it/utils.rs) driving single runs of an  *)
(* execution engine with an OpcodeCountInspector (src/tracing/opcount.rs)  *)
(* attached.                                                               *)
(*                                                                         *)
(* The engine (revm) is an external collaborator: it is represented by a   *)
(* small deterministic interpreter over five opcodes, so that runs end in  *)
(* Success, Revert or Halt, execute a varying number of instructions,      *)
(* depend on the ledger, the configuration and the rule-set id, and may    *)
(* be rejected by transaction validation.                                  *)
(***************************************************************************)
EXTENDS Integers, Sequences, FiniteSets, TLC

(* ---- bounds ---- *)

\* Width of the counter type (usize), scaled down so that TLC reaches the
\* maximum value by counting.  A single run never executes UsizeMax steps.
UsizeBits == 3
UsizeMax == 2^UsizeBits - 1

\* Runs that commit are started only while the sender's nonce is below this.
MaxNonce == 2

(* ---- values ---- *)

None == {}
Some(x) == {x}
Unwrap(o) == CHOOSE x \in o : TRUE

\* Address::ZERO is the default sender; A1 and A2 are the addresses a
\* creation by that sender can produce.
Address == {"A0", "A1", "A2"}
AddressZero == "A0"

\* Call data / init code, as opcode sequences.  In init code the bytes that
\* follow RETURN are the runtime code the constructor returns.
Bytes ==
  { <<>>,
    <<"JUMPDEST", "RETURN", "PUSH0", "STOP">>,
    <<"JUMPDEST", "REVERT">>,
    <<"INVALID">> }

\* The payloads handed to call: the called code does not read its call data.
CallData == { <<>>, <<"INVALID">> }

SpecId == {"MERGE", "CANCUN"}

EmptyAccount == [nonce |-> 0, code |-> <<>>]

\* CacheDB::new(EmptyDB::default())
EmptyDB == [a \in Address |-> EmptyAccount]

VARIABLES
  db,               \* TestEvm.db: the ledger
  env,              \* TestEvm.env: the stored configuration
  spec_id,          \* TestEvm.spec_id: the rule-set id
  insp,             \* the caller's OpcodeCountInspector, attached to runs
  overflow_checks,  \* build profile: TRUE when arithmetic overflow panics
  pc,               \* "idle", "run" (inside evm.transact()) or "panicked"
  panic,            \* the panic message once pc = "panicked"
  evm,              \* <<>> or <<the engine instance of the run in progress>>
  run,              \* the operation in progress or last ended, with counts
  pre,              \* harness state when that operation was invoked, and
                    \* the configuration it passed into the run
  last,             \* what the last ended operation returned and produced
  prev,             \* the same for the operation before it, if an inspect
  deltas            \* the delta sets of the runs of call, try_deploy and
                    \* deploy that ended without an engine error, in order

vars == <<db, env, spec_id, insp, overflow_checks, pc, panic, evm, run, pre,
          last, prev, deltas>>

(* ---- OpcodeCountInspector (src/tracing/opcount.rs) ---- *)

\* #[derive(Default)]: the counter of a default-constructed inspector.
OpcodeCountInspector_default == [count |-> 0]

\* OpcodeCountInspector::count
count(self) == self.count

\* A step that does not count JUMPDEST (a counter that branches on the opcode).
step_skip_jumpdest(self, interp, context) ==
  [self |-> IF interp.code[interp.ip + 1] = "JUMPDEST"
              THEN self
              ELSE [self EXCEPT !.count = @ + 1],
   interp |-> interp, context |-> context, panicked |-> FALSE]

\* Inspector::step for OpcodeCountInspector: `self.count += 1` on a usize.
\* At the maximum the addition overflows: a panic when the build checks
\* overflow, a wrap to zero otherwise.  _interp and _context are not used.
step(self, interp, context) ==
  IF self.count = UsizeMax
    THEN IF overflow_checks
           THEN [self |-> self, interp |-> interp, context |-> context,
                 panicked |-> TRUE]
           ELSE [self |-> [self EXCEPT !.count = 0], interp |-> interp,
                 context |-> context, panicked |-> FALSE]
    ELSE [self |-> [self EXCEPT !.count = @ + 1], interp |-> interp,
          context |-> context, panicked |-> FALSE]

(* ---- the engine behind Evm::builder() ... transact() ---- *)

\* The address a creation by `caller` at nonce `n` produces.
create_address(caller, n) == IF n % 2 = 0 THEN "A1" ELSE "A2"

\* Transaction validation at the start of transact(): the nonce check.
validate(db_, env_) ==
  LET have == db_[env_.tx.caller].nonce IN
  IF env_.cfg.disable_nonce_check \/ env_.tx.nonce = have THEN "ok"
  ELSE IF env_.tx.nonce < have THEN "NonceTooLow"
  ELSE "NonceTooHigh"

Ended(res, out) == [code |-> <<>>, ip |-> 0, result |-> res, output |-> out]

\* The interpreter the engine starts for the transaction.
first_frame(db_, env_) ==
  IF env_.tx.transact_to = "Create"
    THEN LET a == create_address(env_.tx.caller, db_[env_.tx.caller].nonce) IN
         IF db_[a] # EmptyAccount THEN Ended("Halt", <<>>)
         ELSE IF env_.tx.data = <<>> THEN Ended("Success", <<>>)
         ELSE [code |-> env_.tx.data, ip |-> 0, result |-> "Running",
               output |-> <<>>]
    ELSE LET code == db_[env_.tx.transact_to].code IN
         IF code = <<>> THEN Ended("Success", <<>>)
         ELSE [code |-> code, ip |-> 0, result |-> "Running", output |-> <<>>]

\* The effect of the instruction at interp.ip under rule-set spec_.
execute(interp, spec_) ==
  LET opc == interp.code[interp.ip + 1]
      advance == IF interp.ip + 1 = Len(interp.code)
                   THEN [interp EXCEPT !.ip = @ + 1, !.result = "Success"]
                   ELSE [interp EXCEPT !.ip = @ + 1]
  IN CASE opc = "JUMPDEST" -> advance
       [] opc = "PUSH0" ->
            IF spec_ = "CANCUN" THEN advance
            ELSE [interp EXCEPT !.result = "Halt"]
       [] opc = "STOP" -> [interp EXCEPT !.result = "Success"]
       [] opc = "RETURN" ->
            [interp EXCEPT !.result = "Success",
               !.output = SubSeq(interp.code, interp.ip + 2, Len(interp.code))]
       [] opc = "REVERT" -> [interp EXCEPT !.result = "Revert"]
       [] OTHER -> [interp EXCEPT !.result = "Halt"]

\* ResultAndState { result, state } of a finished run: the outcome and the
\* delta set (the touched accounts with their new values).
result_and_state(db_, env_, interp) ==
  LET caller == env_.tx.caller
      n == db_[caller].nonce
      created == env_.tx.transact_to = "Create" /\ interp.result = "Success"
      a == create_address(caller, n)
  IN [result |-> [tag |-> interp.result, output |-> interp.output,
                  address |-> IF created THEN Some(a) ELSE None],
      state |-> [x \in {caller} \cup (IF created THEN {a} ELSE {}) |->
                   IF x = caller THEN [db_[caller] EXCEPT !.nonce = n + 1]
                   ELSE [nonce |-> 1, code |-> interp.output]]]

\* The configuration the engine hands back: unset fields are defaulted.
returned_env(env_) ==
  [env_ EXCEPT !.tx.chain_id = IF @ = None THEN Some(env_.cfg.chain_id) ELSE @]

\* A commit that applies the sender's entry of the delta set and no other.
commit_sender_only(db_, state) ==
  [a \in Address |->
     IF a \in DOMAIN state /\ a = AddressZero THEN state[a] ELSE db_[a]]

\* self.db.commit(state): every account of the delta set replaces the
\* ledger's entry.
commit(db_, state) ==
  [a \in Address |-> IF a \in DOMAIN state THEN state[a] ELSE db_[a]]

(* ---- what an operation hands back ---- *)

Ret(kind, result, state, env_, address, error) ==
  [kind |-> kind, result |-> result, state |-> state, env |-> env_,
   address |-> address, error |-> error]

NoRet == Ret("None", None, None, None, None, "")

\* Err(EVMError::Transaction(e))
Err(e) == Ret("Err", None, None, None, None, e)

\* The record of an ended operation r, with the count its hook shows.
Ended_op(r, hook, ret, out) ==
  [op |-> r.op, fresh |-> r.fresh, ret |-> ret, out |-> out,
   count |-> count(hook), on_step |-> r.on_step, instrs |-> r.instrs]

Started(op, fresh) == [op |-> op, fresh |-> fresh, on_step |-> 0, instrs |-> 0]

NoOp ==
  [op |-> "none", fresh |-> FALSE, ret |-> NoRet, out |-> None, count |-> 0,
   on_step |-> 0, instrs |-> 0]

\* Of the operation ended before the last one, only a dry run is remembered.
Remembered(l) == IF l.op = "inspect" THEN l ELSE NoOp

(* ---- TestEvm::new / new_with_spec_id ---- *)

\* Env::boxed(CfgEnv::default(), BlockEnv {..}, TxEnv {..})
new_env ==
  [cfg |-> [chain_id |-> 1, disable_nonce_check |-> FALSE],
   tx |-> [caller |-> AddressZero, transact_to |-> AddressZero,
           data |-> <<>>, nonce |-> 0, chain_id |-> None]]

Init ==
  /\ db = EmptyDB
  /\ env = new_env
  /\ spec_id \in SpecId
  /\ insp = OpcodeCountInspector_default
  /\ overflow_checks \in BOOLEAN
  /\ pc = "idle"
  /\ panic = ""
  /\ evm = <<>>
  /\ run = Started("none", FALSE)
  /\ pre = [db |-> EmptyDB, env |-> new_env, passed |-> new_env,
            spec_id |-> spec_id, count |-> 0]
  /\ last = NoOp
  /\ prev = NoOp
  /\ deltas = <<>>

\* TestEvm::disable_nonce_check
disable_nonce_check ==
  /\ pc = "idle"
  /\ env' = [env EXCEPT !.cfg.disable_nonce_check = TRUE]
  /\ run' = Started("disable_nonce_check", FALSE)
  /\ pre' = [db |-> db, env |-> env, passed |-> env, spec_id |-> spec_id,
             count |-> count(insp)]
  /\ last' = Ended_op(Started("disable_nonce_check", FALSE), insp, NoRet, None)
  /\ prev' = Remembered(last)
  /\ UNCHANGED <<db, spec_id, insp, overflow_checks, pc, panic, evm, deltas>>

\* The caller assigns the public field between runs: evm.spec_id = spec_id
set_spec_id(s) ==
  /\ pc = "idle"
  /\ spec_id' = s
  /\ run' = Started("set_spec_id", FALSE)
  /\ pre' = [db |-> db, env |-> env, passed |-> env, spec_id |-> spec_id,
             count |-> count(insp)]
  /\ last' = Ended_op(Started("set_spec_id", FALSE), insp, NoRet, None)
  /\ prev' = Remembered(last)
  /\ UNCHANGED <<db, env, insp, overflow_checks, pc, panic, evm, deltas>>

(* ---- the free function inspect: build, transact, take the env back ---- *)

\* An engine built with the default rule set instead of the one passed in.
Evm_build_default_rules(env_, spec_) ==
  [env |-> env_, spec_id |-> "CANCUN", inspector_handle_register |-> TRUE,
   interp |-> Ended("NotStarted", <<>>)]

\* An engine built without inspector_handle_register: the hook is attached
\* but never called.
Evm_build_unregistered(env_, spec_) ==
  [env |-> env_, spec_id |-> spec_, inspector_handle_register |-> FALSE,
   interp |-> Ended("NotStarted", <<>>)]

\* Evm::builder().with_db(db).with_external_context(inspector).with_env(env)
\*   .with_spec_id(spec_id).append_handler_register(..).build()
\* The ledger is borrowed (the harness's db), the inspector is the caller's.
Evm_build(env_, spec_) ==
  [env |-> env_, spec_id |-> spec_, inspector_handle_register |-> TRUE,
   interp |-> Ended("NotStarted", <<>>)]

\* inspect(db, env_, spec_id, inspector) up to the first instruction of
\* evm.transact(): a validation error is returned at once by `?`, before
\* any instruction runs and with the engine (and its env) dropped.
inspect_start(op, env_, fresh) ==
  LET hook == IF fresh THEN OpcodeCountInspector_default ELSE insp
      e == Evm_build(env_, spec_id)
      v == validate(db, e.env)
  IN /\ insp' = hook
     /\ pre' = [db |-> db, env |-> env, passed |-> env_, spec_id |-> spec_id,
                count |-> count(hook)]
     /\ run' = Started(op, fresh)
     /\ IF v # "ok"
          THEN /\ pc' = "idle"
               /\ evm' = <<>>
               /\ last' = Ended_op(Started(op, fresh), hook, Err(v), None)
               /\ prev' = Remembered(last)
          ELSE /\ pc' = "run"
               /\ evm' = <<[e EXCEPT !.interp = first_frame(db, e.env)]>>
               /\ UNCHANGED <<last, prev>>

\* One instruction of evm.transact(): the registered hook's step is called
\* with the interpreter and the context, then the instruction executes.
transact_step ==
  /\ pc = "run"
  /\ evm[1].interp.result = "Running"
  /\ LET e == evm[1]
         ctx == [env |-> e.env, spec_id |-> e.spec_id]
         s == IF e.inspector_handle_register
                THEN step(insp, e.interp, ctx)
                ELSE [self |-> insp, interp |-> e.interp, context |-> ctx,
                      panicked |-> FALSE]
     IN IF s.panicked
          THEN /\ pc' = "panicked"
               /\ panic' = "attempt to add with overflow"
               /\ run' = [run EXCEPT !.on_step = @ + 1]
               /\ UNCHANGED <<insp, evm>>
          ELSE /\ insp' = s.self
               /\ evm' = <<[e EXCEPT
                              !.interp = execute(s.interp, s.context.spec_id),
                              !.env = s.context.env,
                              !.spec_id = s.context.spec_id]>>
               /\ run' = [run EXCEPT
                            !.on_step = IF e.inspector_handle_register
                                          THEN @ + 1 ELSE @,
                            !.instrs = @ + 1]
               /\ UNCHANGED <<pc, panic>>
  /\ UNCHANGED <<db, env, spec_id, overflow_checks, pre, last, prev, deltas>>

\* `let res = evm.transact()?; let (_, env, _) = evm.into_db_and_env...();
\*  Ok((res, env))` once the run has ended: [result, state, env].
inspect_value ==
  LET e == evm[1]
      rs == result_and_state(db, e.env, e.interp)
  IN [result |-> rs.result, state |-> rs.state, env |-> returned_env(e.env)]

RunEnded(op) ==
  /\ pc = "run"
  /\ run.op = op
  /\ evm[1].interp.result # "Running"

(* ---- TestEvm::inspect ---- *)

\* TestEvm::inspect, entry: inspect(&mut self.db, self.env.clone(),
\* self.spec_id, inspector).
TestEvm_inspect(fresh) ==
  /\ pc = "idle"
  /\ inspect_start("inspect", env, fresh)
  /\ UNCHANGED <<db, env, spec_id, overflow_checks, panic, deltas>>

\* An inspect that keeps the returned configuration in the harness.
TestEvm_inspect_return_storing_env ==
  /\ RunEnded("inspect")
  /\ LET v == inspect_value IN
       /\ env' = v.env
       /\ pc' = "idle"
       /\ evm' = <<>>
       /\ last' = Ended_op(run, insp,
                           Ret("Ok", Some(v.result), Some(v.state),
                               Some(v.env), None, ""), Some(v))
       /\ prev' = Remembered(last)
  /\ UNCHANGED <<db, spec_id, insp, overflow_checks, panic, run, pre, deltas>>

\* An inspect that applies the delta set it is about to return.
TestEvm_inspect_return_committing ==
  /\ RunEnded("inspect")
  /\ LET v == inspect_value IN
       /\ db' = commit(db, v.state)
       /\ pc' = "idle"
       /\ evm' = <<>>
       /\ last' = Ended_op(run, insp,
                           Ret("Ok", Some(v.result), Some(v.state),
                               Some(v.env), None, ""), Some(v))
       /\ prev' = Remembered(last)
  /\ deltas' = Append(deltas, inspect_value.state)
  /\ UNCHANGED <<env, spec_id, insp, overflow_checks, panic, run, pre>>

\* TestEvm::inspect, return: Ok((ResultAndState, env)) goes to the caller;
\* nothing is stored in the harness.
TestEvm_inspect_return ==
  /\ RunEnded("inspect")
  /\ LET v == inspect_value IN
       /\ pc' = "idle"
       /\ evm' = <<>>
       /\ last' = Ended_op(run, insp,
                           Ret("Ok", Some(v.result), Some(v.state),
                               Some(v.env), None, ""), Some(v))
       /\ prev' = Remembered(last)
  /\ UNCHANGED <<db, env, spec_id, insp, overflow_checks, panic, run, pre,
                 deltas>>

(* ---- TestEvm::call ---- *)

\* A call that also sets the transaction nonce to the sender's ledger nonce.
call_syncing_nonce(address, data, fresh) ==
  /\ pc = "idle"
  /\ db[env.tx.caller].nonce < MaxNonce
  /\ LET env1 == [env EXCEPT !.tx.data = data, !.tx.transact_to = address,
                             !.tx.nonce = db[env.tx.caller].nonce] IN
       /\ env' = env1
       /\ inspect_start("call", env1, fresh)
  /\ UNCHANGED <<db, spec_id, overflow_checks, panic, deltas>>

\* A call that applies the sender's nonce bump before the run is validated.
call_bumping_nonce_first(address, data, fresh) ==
  /\ pc = "idle"
  /\ db[env.tx.caller].nonce < MaxNonce
  /\ LET env1 == [env EXCEPT !.tx.data = data, !.tx.transact_to = address] IN
       /\ env' = env1
       /\ inspect_start("call", env1, fresh)
  /\ db' = [db EXCEPT ![env.tx.caller].nonce = @ + 1]
  /\ UNCHANGED <<spec_id, overflow_checks, panic, deltas>>

\* A call that puts the stored configuration back when the engine refuses
\* the transaction.
call_rolling_back(address, data, fresh) ==
  /\ pc = "idle"
  /\ db[env.tx.caller].nonce < MaxNonce
  /\ LET env1 == [env EXCEPT !.tx.data = data, !.tx.transact_to = address] IN
       /\ env' = IF validate(db, env1) # "ok" THEN env ELSE env1
       /\ inspect_start("call", env1, fresh)
  /\ UNCHANGED <<db, spec_id, overflow_checks, panic, deltas>>

\* TestEvm::call, entry: self.env.tx.data = data;
\* self.env.tx.transact_to = TransactTo::Call(address); self.inspect(..)?
call(address, data, fresh) ==
  /\ pc = "idle"
  /\ db[env.tx.caller].nonce < MaxNonce
  /\ LET env1 == [env EXCEPT !.tx.data = data, !.tx.transact_to = address] IN
       /\ env' = env1
       /\ inspect_start("call", env1, fresh)
  /\ UNCHANGED <<db, spec_id, overflow_checks, panic, deltas>>

\* A call that stores the returned configuration and drops the delta set.
call_return_dropping_delta ==
  /\ RunEnded("call")
  /\ LET v == inspect_value IN
       /\ env' = v.env
       /\ pc' = "idle"
       /\ evm' = <<>>
       /\ last' = Ended_op(run, insp,
                           Ret("Ok", Some(v.result), None, None, None, ""),
                           Some(v))
       /\ prev' = Remembered(last)
  /\ deltas' = Append(deltas, inspect_value.state)
  /\ UNCHANGED <<db, spec_id, insp, overflow_checks, panic, run, pre>>

\* A call that commits the delta set but keeps the configuration it passed in.
call_return_keeping_env ==
  /\ RunEnded("call")
  /\ LET v == inspect_value IN
       /\ db' = commit(db, v.state)
       /\ pc' = "idle"
       /\ evm' = <<>>
       /\ last' = Ended_op(run, insp,
                           Ret("Ok", Some(v.result), None, None, None, ""),
                           Some(v))
       /\ prev' = Remembered(last)
  /\ deltas' = Append(deltas, inspect_value.state)
  /\ UNCHANGED <<env, spec_id, insp, overflow_checks, panic, run, pre>>

\* TestEvm::call, after inspect returned Ok: self.db.commit(state);
\* self.env = env; Ok(result)
call_return ==
  /\ RunEnded("call")
  /\ LET v == inspect_value IN
       /\ db' = commit(db, v.state)
       /\ env' = v.env
       /\ pc' = "idle"
       /\ evm' = <<>>
       /\ last' = Ended_op(run, insp,
                           Ret("Ok", Some(v.result), None, None, None, ""),
                           Some(v))
       /\ prev' = Remembered(last)
  /\ deltas' = Append(deltas, inspect_value.state)
  /\ UNCHANGED <<spec_id, insp, overflow_checks, panic, run, pre>>

(* ---- TestEvm::try_deploy and TestEvm::deploy ---- *)

\* The entry of try_deploy: self.env.tx.data = data;
\* self.env.tx.transact_to = TransactTo::Create; self.inspect(..)?
try_deploy_start(op, data, fresh) ==
  /\ pc = "idle"
  /\ db[env.tx.caller].nonce < MaxNonce
  /\ LET env1 == [env EXCEPT !.tx.data = data, !.tx.transact_to = "Create"] IN
       /\ env' = env1
       /\ inspect_start(op, env1, fresh)
  /\ UNCHANGED <<db, spec_id, overflow_checks, panic, deltas>>

\* The Option<Address> try_deploy returns next to the result.
try_deploy_address(result) ==
  IF result.tag = "Success" THEN result.address ELSE None

\* A try_deploy that commits the delta set only when the outcome is Success.
try_deploy_commit_on_success_only(v) ==
  /\ db' = IF v.result.tag = "Success" THEN commit(db, v.state) ELSE db
  /\ env' = v.env

\* try_deploy, after inspect returned Ok: self.db.commit(state); self.env = env
try_deploy_commit(v) ==
  /\ db' = commit(db, v.state)
  /\ env' = v.env

\* TestEvm::try_deploy as called by the test
try_deploy(data, fresh) == try_deploy_start("try_deploy", data, fresh)

\* try_deploy returns Ok((result, address))
try_deploy_return ==
  /\ RunEnded("try_deploy")
  /\ LET v == inspect_value IN
       /\ try_deploy_commit(v)
       /\ pc' = "idle"
       /\ evm' = <<>>
       /\ last' = Ended_op(run, insp,
                           Ret("Ok", Some(v.result), None, None,
                               try_deploy_address(v.result), ""), Some(v))
       /\ prev' = Remembered(last)
  /\ deltas' = Append(deltas, inspect_value.state)
  /\ UNCHANGED <<spec_id, insp, overflow_checks, panic, run, pre>>

\* TestEvm::deploy, entry: self.try_deploy(data, inspector)?
deploy(data, fresh) == try_deploy_start("deploy", data, fresh)

\* A deploy that falls back to the default address when none was created.
deploy_unwrap_or_default(address) ==
  [panicked |-> FALSE,
   value |-> IF address = None THEN AddressZero ELSE Unwrap(address)]

\* address.expect("failed to deploy contract")
deploy_expect(address) ==
  IF address = None
    THEN [panicked |-> TRUE, value |-> AddressZero]
    ELSE [panicked |-> FALSE, value |-> Unwrap(address)]

\* TestEvm::deploy, after try_deploy returned Ok((_, address)):
\* Ok(address.expect("failed to deploy contract"))
deploy_return ==
  /\ RunEnded("deploy")
  /\ LET v == inspect_value
         x == deploy_expect(try_deploy_address(v.result))
     IN /\ try_deploy_commit(v)
        /\ evm' = <<>>
        /\ prev' = Remembered(last)
        /\ IF x.panicked
             THEN /\ pc' = "panicked"
                  /\ panic' = "failed to deploy contract"
                  /\ last' = Ended_op(run, insp,
                                      Ret("Panic", None, None, None, None, ""),
                                      Some(v))
             ELSE /\ pc' = "idle"
                  /\ panic' = panic
                  /\ last' = Ended_op(run, insp,
                                      Ret("Ok", None, None, None,
                                          Some(x.value), ""), Some(v))
  /\ deltas' = Append(deltas, inspect_value.state)
  /\ UNCHANGED <<spec_id, insp, overflow_checks, run, pre>>

(* ---- the program ---- *)

Next ==
  \/ disable_nonce_check
  \/ \E s \in SpecId : set_spec_id(s)
  \/ \E fresh \in BOOLEAN : TestEvm_inspect(fresh)
  \/ TestEvm_inspect_return
  \/ \E address \in Address, data \in CallData, fresh \in BOOLEAN :
       call(address, data, fresh)
  \/ call_return
  \/ \E data \in Bytes, fresh \in BOOLEAN : try_deploy(data, fresh)
  \/ try_deploy_return
  \/ \E data \in Bytes, fresh \in BOOLEAN : deploy(data, fresh)
  \/ deploy_return
  \/ transact_step

Spec == Init /\ [][Next]_vars

TypeOK ==
  /\ pc \in {"idle", "run", "panicked"}
  /\ count(insp) \in 0..UsizeMax
  /\ spec_id \in SpecId
  /\ \A a \in Address : db[a].nonce \in 0..MaxNonce

(* ---- properties ---- *)

\* The operation `op` of the harness has returned to its caller.
Returned(op) == pc = "idle" /\ last.op = op

\* deploy has ended in the panic of address.expect(..).
DeployPanicked == pc = "panicked" /\ panic = "failed to deploy contract"

\* The run of the last ended operation produced an outcome (no engine error).
HasOutcome == last.out # None

\* What the engine produced in that run: [result, state, env].
Outcome == Unwrap(last.out)

\* Ledger `after` is ledger `before` with the whole delta set applied: every
\* account of the delta set has its new value, every other account its old.
Applied(after, before, state) ==
  \A a \in Address :
    after[a] = IF a \in DOMAIN state THEN state[a] ELSE before[a]

\* C1: whenever call returns an engine error, the ledger is the ledger
\* the harness held when call was invoked.
C1_CallErrorLeavesLedger ==
  (Returned("call") /\ last.ret.kind = "Err") => db = pre.db

C1_Witness ==
  /\ Returned("call")
  /\ last.ret.kind = "Err"
  /\ last.ret.error = "NonceTooLow"
  /\ pre.db # EmptyDB
  /\ env.tx.data # pre.env.tx.data

\* C2 as stated: deploy, call and inspect each end either reporting
\* success with the whole delta set in the ledger, or reporting failure
\* with the ledger as before; a deploy that fails for want of a created
\* address leaves the ledger as before.
C2_Original ==
  /\ \A op \in {"deploy", "call", "inspect"} :
       Returned(op) =>
         \/ last.ret.kind = "Ok" /\ Applied(db, pre.db, Outcome.state)
         \/ last.ret.kind = "Err" /\ db = pre.db
  /\ DeployPanicked => db = pre.db

\* C2, amended: call, try_deploy and deploy end with the whole delta set of
\* the run in the ledger whenever the run produced an outcome (also when
\* deploy then fails for want of a created address), and with the ledger as
\* before when the run failed with an engine error; inspect ends with the
\* ledger as before in both cases.
C2_CommitOrUntouched ==
  /\ \A op \in {"deploy", "call", "try_deploy"} :
       Returned(op) =>
         IF last.ret.kind = "Err"
           THEN ~HasOutcome /\ db = pre.db
           ELSE HasOutcome /\ Applied(db, pre.db, Outcome.state)
  /\ DeployPanicked => HasOutcome /\ Applied(db, pre.db, Outcome.state)
  /\ Returned("inspect") => db = pre.db

C2_Witness ==
  /\ DeployPanicked
  /\ Outcome.result.tag = "Halt"
  /\ db # pre.db

\* C3 as stated: after any run made by the harness, the stored
\* configuration is the one the engine returned for that run.
C3_Original ==
  \A op \in {"deploy", "try_deploy", "call", "inspect"} :
    ((Returned(op) \/ (op = "deploy" /\ DeployPanicked)) /\ HasOutcome)
      => env = Outcome.env

\* C3, amended: after any call, try_deploy or deploy whose run did not fail
\* with an engine error, the stored configuration is the one the engine
\* returned for that run.
C3_StoredEnvIsReturnedEnv ==
  \A op \in {"deploy", "try_deploy", "call"} :
    ((Returned(op) \/ (op = "deploy" /\ DeployPanicked)) /\ HasOutcome)
      => env = Outcome.env

\* The engine returned a configuration that differs from the one passed in.
C3_Witness ==
  /\ Returned("call")
  /\ HasOutcome
  /\ env = Outcome.env
  /\ env # pre.passed
  /\ env.tx.transact_to = pre.passed.tx.transact_to

\* C4: for each of Success, Revert and Halt, a call, try_deploy or deploy
\* whose run did not fail with an engine error has committed the returned
\* delta set and stored the returned configuration; when the outcome of a
\* deployment is not Success no created address is handed back.
C4_CommitsForEveryOutcome ==
  \A tag \in {"Success", "Revert", "Halt"} :
    /\ \A op \in {"call", "try_deploy", "deploy"} :
         ( /\ Returned(op) \/ (op = "deploy" /\ DeployPanicked)
           /\ last.ret.kind # "Err"
           /\ HasOutcome => Outcome.result.tag = tag )
         => /\ HasOutcome
            /\ Applied(db, pre.db, Outcome.state)
            /\ env = Outcome.env
    /\ (Returned("try_deploy") /\ HasOutcome /\ Outcome.result.tag = tag
        /\ tag # "Success") => last.ret.address = None
    /\ (DeployPanicked /\ Outcome.result.tag = tag)
         => tag # "Success" /\ last.ret.address = None

\* A deployment that reverted: nonce bump committed, no account created.
C4_Witness ==
  /\ Returned("try_deploy")
  /\ HasOutcome
  /\ Outcome.result.tag = "Revert"
  /\ last.ret.address = None
  /\ db[AddressZero].nonce = pre.db[AddressZero].nonce + 1
  /\ \A a \in Address \ {AddressZero} : db[a] = pre.db[a]

\* C5: inspect leaves the ledger, the stored configuration and the rule-set
\* id as they were when it was invoked, whether it returns an outcome or an
\* error, and hands the delta set to the caller; while a run is in progress
\* (inside the single-run executor) the ledger is the one it started from.
C5_InspectIsPureRead ==
  /\ Returned("inspect") =>
       /\ db = pre.db
       /\ env = pre.env
       /\ spec_id = pre.spec_id
       /\ last.ret.kind = "Ok" =>
            /\ last.ret.state = Some(Outcome.state)
            /\ last.ret.env = Some(Outcome.env)
  /\ pc = "run" => db = pre.db /\ spec_id = pre.spec_id

\* A dry run of a deployment: the created account is in the returned delta
\* set and not in the ledger.
C5_Witness ==
  /\ Returned("inspect")
  /\ last.ret.kind = "Ok"
  /\ \E a \in Address \ {AddressZero} :
       /\ a \in DOMAIN Outcome.state
       /\ db[a] = EmptyAccount
  /\ last.ret.state = Some(Outcome.state)

C7_CountIsNumberOfSteps ==
  /\ count(OpcodeCountInspector_default) = 0
  /\ (run.fresh /\ pc \in {"run", "idle"}) =>
       /\ count(insp) = run.on_step
       /\ run.on_step = run.instrs
  /\ (pc = "run" /\ evm[1].interp.result = "Running") =>
       run.instrs = evm[1].interp.ip

\* A run that stopped at RETURN after two instructions of a four-byte code.
C7_Witness ==
  /\ pc = "idle"
  /\ run.fresh
  /\ run.op = "try_deploy"
  /\ pre.passed.tx.data = <<"JUMPDEST", "RETURN", "PUSH0", "STOP">>
  /\ HasOutcome
  /\ count(insp) = 2
  /\ run.on_step = 2

RECURSIVE run_to_end(_, _)
\* The interpreter run to its end with no hook attached.
run_to_end(interp, spec_) ==
  IF interp.result # "Running" THEN interp
  ELSE run_to_end(execute(interp, spec_), spec_)

\* What a run from the state before the operation yields with no hook.
Reference ==
  LET rs == result_and_state(pre.db, pre.passed,
              run_to_end(first_frame(pre.db, pre.passed), pre.spec_id))
  IN [result |-> rs.result, state |-> rs.state, env |-> returned_env(pre.passed)]

\* C8 as stated: whatever the state of the attached counter, a run that
\* passes validation yields the outcome, the delta set and the returned
\* configuration of the same run without the hook; the step callback stops
\* no run and leaves the interpreter and the context as they were.
C8_Original ==
  /\ ~(pc = "panicked" /\ panic = "attempt to add with overflow")
  /\ ((pc = "idle" \/ DeployPanicked) /\ run.op = last.op /\ HasOutcome) =>
       Outcome = Reference

\* C9: two inspects in a row, each with a counter constructed for it, give
\* the same count, the same result (outcome, delta set, returned
\* configuration) or the same error.
C9_InspectTwiceSame ==
  (Returned("inspect") /\ prev.op = "inspect" /\ last.fresh /\ prev.fresh)
    => /\ last.count = prev.count
       /\ last.ret = prev.ret
       /\ last.out = prev.out
       /\ last.instrs = prev.instrs

C9_Witness ==
  /\ Returned("inspect")
  /\ prev.op = "inspect"
  /\ last.fresh
  /\ prev.fresh
  /\ last.ret.kind = "Ok"
  /\ last.count > 0
  /\ last.count = prev.count
  /\ pre.db # EmptyDB

\* C10: after deploy, try_deploy, call or inspect has returned from a run
\* of at least one instruction, observed by a counter constructed for it
\* and retained by the caller, the caller reads a count that is greater
\* than zero and is the number of instructions the run executed.
C10_CallerReadsCount ==
  \A op \in {"deploy", "try_deploy", "call", "inspect"} :
    (Returned(op) /\ last.fresh /\ HasOutcome /\ last.instrs >= 1)
      => /\ count(insp) > 0
         /\ count(insp) = last.instrs

\* Scenario: deploy on the empty ledger, Success, an address, count() > 0.
C10_Witness ==
  /\ Returned("deploy")
  /\ last.fresh
  /\ pre.db = EmptyDB
  /\ last.ret.kind = "Ok"
  /\ last.ret.address = Some("A1")
  /\ db["A1"].code = <<"PUSH0", "STOP">>
  /\ count(insp) > 0

\* The operations that make a run.
RunOps == {"deploy", "try_deploy", "call", "inspect"}

\* The step callback has panicked on the counter's overflow.
OverflowPanicked == pc = "panicked" /\ panic = "attempt to add with overflow"

\* C11 as stated: the step callback aborts no run, whatever the counter's
\* value; at the maximum the counter saturates, so that during and after a
\* run it reads the count at the start plus the callbacks made, capped at
\* the maximum.
C11_Original ==
  /\ ~OverflowPanicked
  /\ (run.op \in RunOps /\ pc \in {"run", "idle"}) =>
       count(insp) = IF pre.count + run.on_step > UsizeMax
                       THEN UsizeMax
                       ELSE pre.count + run.on_step

\* The operations that commit.
Committing == {"deploy", "try_deploy", "call"}

\* Delta set d applied to a ledger.
ApplyDelta(ledger, d) ==
  [a \in Address |-> IF a \in DOMAIN d THEN d[a] ELSE ledger[a]]

RECURSIVE ApplyAll(_, _)
\* The delta sets ds applied to a ledger, first to last.
ApplyAll(ledger, ds) ==
  IF ds = <<>> THEN ledger
  ELSE ApplyAll(ApplyDelta(ledger, Head(ds)), Tail(ds))

\* C12: the ledger is at all times the initial ledger with the delta sets of
\* the earlier call/deploy runs applied in order; a call or deploy run
\* executes against that ledger, and when the operation before it was a call
\* or deploy that did not fail with an engine error, that operation's delta
\* set is already the last one applied and the run starts from the
\* configuration it returned.
C12_Sequencing ==
  /\ db = ApplyAll(EmptyDB, deltas)
  /\ (pc = "run" /\ run.op \in Committing) =>
       /\ pre.db = ApplyAll(EmptyDB, deltas)
       /\ (last.op \in Committing /\ HasOutcome) =>
            /\ Len(deltas) >= 1
            /\ deltas[Len(deltas)] = Outcome.state
            /\ pre.env = Outcome.env

\* The second run executes the code the first run deployed.
C12_Witness ==
  /\ pc = "run"
  /\ run.op = "call"
  /\ last.op = "try_deploy"
  /\ HasOutcome
  /\ Len(deltas) = 1
  /\ evm[1].interp.code = <<"PUSH0", "STOP">>
  /\ pre.env = Outcome.env
  /\ pre.db # EmptyDB

\* Configuration `to` is configuration `from` with the transaction target
\* and the call data replaced, every other field kept.
Retargeted(to, from, target, payload) ==
  /\ to.tx.transact_to = target
  /\ to.tx.data = payload
  /\ to.cfg = from.cfg
  /\ to.tx.caller = from.tx.caller
  /\ to.tx.nonce = from.tx.nonce
  /\ to.tx.chain_id = from.tx.chain_id

\* The configuration handed to the engine by the operation just invoked.
Handed == IF pc = "run" THEN evm[1].env ELSE pre.passed

\* C13: the configuration call(target, payload, hook) hands to the engine is
\* the stored configuration with the target set to `target` and the call
\* data to `payload`, nothing else changed; deploy and try_deploy hand over
\* the same with the create marker as target.
C13_HandedConfiguration ==
  [][ /\ \A address \in Address, data \in CallData, fresh \in BOOLEAN :
           call(address, data, fresh) =>
             /\ Retargeted(Handed', env, address, data)
             /\ pre'.passed = Handed'
      /\ \A data \in Bytes, fresh \in BOOLEAN :
           (deploy(data, fresh) \/ try_deploy(data, fresh)) =>
             /\ Retargeted(Handed', env, "Create", data)
             /\ pre'.passed = Handed'
    ]_vars

\* A call in progress whose target and call data differ from the stored
\* ones and whose other fields carry a non-default setting over.
C13_Witness ==
  /\ pc = "run"
  /\ run.op = "call"
  /\ evm[1].env.tx.transact_to = "A1"
  /\ pre.env.tx.transact_to = "Create"
  /\ evm[1].env.tx.data # pre.env.tx.data
  /\ evm[1].env.cfg.disable_nonce_check
  /\ evm[1].env.tx.chain_id # None

\* C14: during and after deploy, try_deploy, call and inspect the stored
\* rule-set id is the one stored when the operation was invoked, whatever
\* the result, and the engine of the run is built with that id; the stored
\* id changes only in the caller's assignment between runs.
C14_RuleSetIdKept ==
  /\ [](/\ run.op \in RunOps => spec_id = pre.spec_id
        /\ pc = "run" => evm[1].spec_id = pre.spec_id)
  /\ [][spec_id' # spec_id => (pc = "idle" /\ run'.op = "set_spec_id")]_vars

\* A call that halted at PUSH0 under the older rule set after the caller
\* had assigned the id.
C14_Witness ==
  /\ Returned("call")
  /\ HasOutcome
  /\ Outcome.result.tag = "Halt"
  /\ last.instrs = 1
  /\ spec_id = "MERGE"
  /\ pre.spec_id = "MERGE"
  /\ prev.op = "inspect"
  /\ prev.out # None
  /\ Unwrap(prev.out).result.tag = "Success"
  /\ prev.instrs = 2

\* The last ended operation is a call, try_deploy or deploy that returned an
\* engine error.
ErrReturned == pc = "idle" /\ last.op \in Committing /\ last.ret.kind = "Err"

\* C15: when call, try_deploy or deploy returns an engine error, the stored
\* configuration is the one from before the operation with the target and
\* the call data the failed operation set, the ledger and the rule-set id
\* are the ones from before, and the operation invoked next starts from that
\* stored configuration.
C15_ErrorKeepsRetargetedEnv ==
  /\ [](ErrReturned =>
          /\ env = pre.passed
          /\ Retargeted(env, pre.env, pre.passed.tx.transact_to,
                        pre.passed.tx.data)
          /\ last.op = "call" => env.tx.transact_to \in Address
          /\ last.op \in {"deploy", "try_deploy"} =>
               env.tx.transact_to = "Create"
          /\ db = pre.db
          /\ spec_id = pre.spec_id)
  /\ [][ErrReturned =>
          /\ \A fresh \in BOOLEAN :
               TestEvm_inspect(fresh) => Handed' = pre.passed
          /\ \A address \in Address, data \in CallData, fresh \in BOOLEAN :
               call(address, data, fresh) =>
                 Retargeted(Handed', pre.passed, address, data)
          /\ \A data \in Bytes, fresh \in BOOLEAN :
               (deploy(data, fresh) \/ try_deploy(data, fresh)) =>
                 Retargeted(Handed', pre.passed, "Create", data)
        ]_vars

\* A call refused by the engine after a deployment: the stored configuration
\* now targets the called address with the call's data.
C15_Witness ==
  /\ ErrReturned
  /\ last.op = "call"
  /\ env.tx.transact_to \in Address
  /\ pre.env.tx.transact_to = "Create"
  /\ env.tx.data # pre.env.tx.data
  /\ env # pre.env
  /\ pre.db # EmptyDB

\* An operation is invoked with a newly constructed counter.
FreshStart == pc = "idle" /\ run'.op \in RunOps /\ run'.fresh

\* C16 as stated: the counter of a hook changes only in on_step, by one, it
\* never decreases, and a counter kept across runs holds the number of
\* on_step invocations made since its construction.
C16_Original ==
  /\ []((run.op \in RunOps /\ pc \in {"run", "idle"}) =>
          count(insp) = pre.count + run.on_step)
  /\ [][IF FreshStart
          THEN count(insp') = 0
          ELSE /\ count(insp') >= count(insp)
               /\ count(insp') # count(insp) =>
                    /\ pc = "run"
                    /\ run'.on_step = run.on_step + 1
                    /\ count(insp') = count(insp) + 1
       ]_vars

====
